---------------------------- MODULE Spec2Model ----------------------------
(***************************************************************************)
(* A model of CreditRiskModel (src/main.py): the scoring pipeline          *)
(* assess_credit_risk, its four category components, the aggregator and    *)
(* the recommendation of generate_report.                                  *)
(*                                                                         *)
(* Numbers.  Python floats are modelled by exact rationals [n, d] in       *)
(* lowest terms with d > 0; the binary rounding error of float arithmetic  *)
(* (about 1e-16 relative) is not modelled.  np.exp is modelled by a        *)
(* fixed-point evaluation with eight decimal digits.                       *)
(*                                                                         *)
(* Dicts are functions whose DOMAIN is the set of keys present; a lookup   *)
(* of an absent key raises KeyError, as in Python.                         *)
(***************************************************************************)
EXTENDS Integers, Sequences, FiniteSets, TLC

VARIABLES
    weights,              \* self.weights
    risk_thresholds,      \* self.risk_thresholds
    industry_benchmarks,  \* self.industry_benchmarks
    inputs,               \* per caller: the four input mappings the caller owns
    given,                \* per caller: the inputs as they were when the call started
    frames,               \* per caller: position and locals of assess_credit_risk / generate_report
    unit                  \* a direct call of one method: [fn, arg, result]

vars == <<weights, risk_thresholds, industry_benchmarks, inputs, given, frames, unit>>

-----------------------------------------------------------------------------
(* Option values and call outcomes *)

None == <<>>
Some(x) == <<x>>

Return(v) == [raised |-> None, value |-> Some(v)]
Raise(kind, detail) == [raised |-> Some([kind |-> kind, detail |-> detail]), value |-> None]
Returned(r) == r.raised = None
Value(r) == r.value[1]
Error(r) == r.raised[1]

-----------------------------------------------------------------------------
(* Rational arithmetic standing for Python float arithmetic *)

Abs(i) == IF i < 0 THEN -i ELSE i

RECURSIVE GCD(_, _)
GCD(a, b) == IF b = 0 THEN a ELSE GCD(b, a % b)

Rat(n, d) ==
    LET g == GCD(Abs(n), Abs(d))
        s == IF d < 0 THEN -1 ELSE 1
    IN [n |-> s * (n \div g), d |-> s * (d \div g)]

FromInt(i) == [n |-> i, d |-> 1]

RAdd(a, b) == Rat(a.n * b.d + b.n * a.d, a.d * b.d)
RSub(a, b) == Rat(a.n * b.d - b.n * a.d, a.d * b.d)
RMul(a, b) ==
    LET x == Rat(a.n, b.d)
        y == Rat(b.n, a.d)
    IN [n |-> x.n * y.n, d |-> x.d * y.d]
RDiv(a, b) == RMul(a, Rat(b.d, b.n))
RLt(a, b) == a.n * b.d < b.n * a.d
RLe(a, b) == a.n * b.d <= b.n * a.d
RGe(a, b) == RLe(b, a)

\* Python's max(a, b) and min(a, b): the first argument wins a tie.
RMax(a, b) == IF RLt(a, b) THEN b ELSE a
RMin(a, b) == IF RLt(b, a) THEN b ELSE a

\* max(0, min(100, x))
Clamp100(x) == RMax(FromInt(0), RMin(FromInt(100), x))

RECURSIVE RSum(_)
RSum(s) == IF s = <<>> THEN FromInt(0) ELSE RAdd(s[1], RSum(Tail(s)))

\* np.mean of a non-empty list
Mean(s) == RDiv(RSum(s), FromInt(Len(s)))

\* round(x, 2), as the integer number of hundredths; an exact tie goes to the
\* even neighbour.
Round2(x) ==
    LET m == 200 * x.n
        k == 2 * x.d
        fl == IF m >= 0 THEN m \div k ELSE -((-m + k - 1) \div k)
        twice == 2 * (m - fl * k)
    IN IF twice < k THEN fl
       ELSE IF twice > k THEN fl + 1
       ELSE IF fl % 2 = 0 THEN fl ELSE fl + 1

-----------------------------------------------------------------------------
(* CreditRiskModel.__init__ *)

InitWeights ==
    [financial_score   |-> Rat(35, 100),
     behavioral_score  |-> Rat(25, 100),
     market_score      |-> Rat(20, 100),
     qualitative_score |-> Rat(20, 100)]

InitRiskThresholds == [LOW |-> FromInt(80), MEDIUM |-> FromInt(60), HIGH |-> FromInt(40)]

InitIndustryBenchmarks ==
    [current_ratio         |-> Rat(2, 1),
     quick_ratio           |-> Rat(1, 1),
     debt_ratio            |-> Rat(1, 2),
     debt_service_coverage |-> Rat(125, 100),
     return_on_assets      |-> Rat(5, 100)]

-----------------------------------------------------------------------------
(* calculate_financial_ratios *)

FinancialFields ==
    {"current_assets", "current_liabilities", "inventory", "total_debt", "total_assets",
     "ebitda", "debt_service", "net_income", "ebit", "interest_expense"}

\* The dict literal of lines 37-45, in evaluation order: for each ratio the
\* fields its numerator reads (left to right), then the field it divides by.
RatioPlan ==
    << [name |-> "current_ratio", num |-> <<"current_assets">>, den |-> "current_liabilities"],
       [name |-> "quick_ratio", num |-> <<"current_assets", "inventory">>, den |-> "current_liabilities"],
       [name |-> "debt_ratio", num |-> <<"total_debt">>, den |-> "total_assets"],
       [name |-> "debt_service_coverage", num |-> <<"ebitda">>, den |-> "debt_service"],
       [name |-> "return_on_assets", num |-> <<"net_income">>, den |-> "total_assets"],
       [name |-> "interest_coverage", num |-> <<"ebit">>, den |-> "interest_expense"] >>

RatioNames == [i \in 1..Len(RatioPlan) |-> RatioPlan[i].name]

\* One value expression of the literal: subscripts left to right, then the division.
EvalRatio(financial_data, p) ==
    LET reads == p.num \o <<p.den>>
        absent == {i \in 1..Len(reads) : reads[i] \notin DOMAIN financial_data}
        first == CHOOSE i \in absent : \A j \in absent : i <= j
        numer == IF Len(p.num) = 1 THEN financial_data[p.num[1]]
                 ELSE financial_data[p.num[1]] - financial_data[p.num[2]]
    IN IF absent # {} THEN Raise("KeyError", reads[first])
       ELSE IF financial_data[p.den] = 0 THEN Raise("ZeroDivisionError", p.den)
       ELSE Return(Rat(numer, financial_data[p.den]))

RECURSIVE EvalRatios(_, _, _)
EvalRatios(financial_data, i, acc) ==
    IF i > Len(RatioPlan) THEN Return(acc)
    ELSE LET r == EvalRatio(financial_data, RatioPlan[i])
         IN IF Returned(r)
            THEN EvalRatios(financial_data, i + 1,
                            [k \in DOMAIN acc \cup {RatioPlan[i].name} |->
                                IF k = RatioPlan[i].name THEN Value(r) ELSE acc[k]])
            ELSE r

EmptyDict == [k \in {} |-> 0]

\* calculate_financial_ratios without its except clauses
calculate_financial_ratios_bare(financial_data) == EvalRatios(financial_data, 1, EmptyDict)

calculate_financial_ratios(financial_data) ==
    LET r == EvalRatios(financial_data, 1, EmptyDict)
    IN IF Returned(r) THEN r
       ELSE IF Error(r).kind = "ZeroDivisionError"
            THEN Raise("ValueError", "Invalid financial data: Division by zero encountered")
            ELSE Raise("KeyError", Error(r).detail)

-----------------------------------------------------------------------------
(* score_financial_ratios *)

\* ScoreRatio without the max(0, min(100, ...)) around the quotient
ScoreRatioUnclamped(benchmarks, ratio, value) ==
    IF ratio \in {"debt_ratio"}
    THEN RMul(RSub(FromInt(1), RDiv(value, benchmarks[ratio])), FromInt(100))
    ELSE RMul(RDiv(value, benchmarks[ratio]), FromInt(100))

ScoreRatio(benchmarks, ratio, value) ==
    LET benchmark == benchmarks[ratio]
    IN IF ratio \in {"debt_ratio"}
       THEN Clamp100(RMul(RSub(FromInt(1), RDiv(value, benchmark)), FromInt(100)))
       ELSE Clamp100(RMul(RDiv(value, benchmark), FromInt(100)))

\* Returns <<mean of the sub-scores, the sub-scores>>.  ratios.items() runs in
\* insertion order, the order of RatioNames.
score_financial_ratios(benchmarks, ratios) ==
    LET scored == SelectSeq(RatioNames,
                            LAMBDA k : k \in DOMAIN ratios /\ k \in DOMAIN benchmarks)
        scores == [k \in {scored[i] : i \in 1..Len(scored)} |->
                      ScoreRatio(benchmarks, k, ratios[k])]
    IN << Mean([i \in 1..Len(scored) |-> scores[scored[i]]]), scores >>

-----------------------------------------------------------------------------
(* analyze_payment_history *)

\* The loop with a MISSED record also entering the lateness average, as 0 days
RECURSIVE TallyPaymentsMissedAveraged(_, _, _)
TallyPaymentsMissedAveraged(payment_data, i, acc) ==
    IF i > Len(payment_data) THEN Return(acc)
    ELSE LET payment == payment_data[i]
         IN IF "status" \notin DOMAIN payment THEN Raise("KeyError", "status")
            ELSE IF payment["status"] = "LATE"
            THEN IF "days_late" \notin DOMAIN payment THEN Raise("KeyError", "days_late")
                 ELSE TallyPaymentsMissedAveraged(payment_data, i + 1,
                          [acc EXCEPT !.late_payments = @ + 1,
                                      !.days_late = Append(@, FromInt(payment["days_late"]))])
            ELSE IF payment["status"] = "MISSED"
            THEN TallyPaymentsMissedAveraged(payment_data, i + 1,
                          [acc EXCEPT !.missed_payments = @ + 1,
                                      !.days_late = Append(@, FromInt(0))])
            ELSE TallyPaymentsMissedAveraged(payment_data, i + 1, acc)

\* The loop of lines 79-84 from record i on; acc is the tally so far.
RECURSIVE TallyPayments(_, _, _)
TallyPayments(payment_data, i, acc) ==
    IF i > Len(payment_data) THEN Return(acc)
    ELSE LET payment == payment_data[i]
         IN IF "status" \notin DOMAIN payment THEN Raise("KeyError", "status")
            ELSE IF payment["status"] = "LATE"
            THEN IF "days_late" \notin DOMAIN payment THEN Raise("KeyError", "days_late")
                 ELSE TallyPayments(payment_data, i + 1,
                          [acc EXCEPT !.late_payments = @ + 1,
                                      !.days_late = Append(@, FromInt(payment["days_late"]))])
            ELSE IF payment["status"] = "MISSED"
            THEN TallyPayments(payment_data, i + 1, [acc EXCEPT !.missed_payments = @ + 1])
            ELSE TallyPayments(payment_data, i + 1, acc)

\* Lines 71-94: the tally, the average, the ratio and the clamped score.
\* Returns <<behavioral_score, analysis>>.
AnalyzeRecords(payment_data) ==
    LET t == TallyPayments(payment_data, 1,
                 [late_payments |-> 0, missed_payments |-> 0, days_late |-> <<>>])
    IN IF ~Returned(t) THEN t
       ELSE LET tally == Value(t)
                analysis ==
                    [late_payments |-> tally.late_payments,
                     average_days_late |->
                         IF tally.days_late # <<>> THEN Mean(tally.days_late) ELSE FromInt(0),
                     missed_payments |-> tally.missed_payments,
                     total_payments |-> Len(payment_data)]
                on_time_ratio ==
                    Rat(analysis.total_payments - analysis.late_payments
                            - analysis.missed_payments,
                        analysis.total_payments)
                behavioral_score ==
                    RSub(RMul(on_time_ratio, FromInt(100)),
                         RMul(analysis.average_days_late, Rat(1, 2)))
            IN Return(<< Clamp100(behavioral_score), analysis >>)

\* analyze_payment_history without lines 68-69: an empty history reaches the
\* division by total_payments = 0 of line 89
analyze_payment_history_unguarded(payment_data) ==
    IF payment_data = <<>> THEN Raise("ZeroDivisionError", "division by zero")
    ELSE AnalyzeRecords(payment_data)

analyze_payment_history(payment_data) ==
    IF payment_data = <<>> THEN Raise("ValueError", "Payment history data is required")
    ELSE AnalyzeRecords(payment_data)

-----------------------------------------------------------------------------
(* _normalize_score, assess_market_conditions, evaluate_qualitative_factors *)

normalize_score(value, min_val, max_val) ==
    Clamp100(RMul(RDiv(RSub(value, FromInt(min_val)), FromInt(max_val - min_val)),
                  FromInt(100)))

\* The first key of keys (in order) that data lacks, as a set of at most one index.
FirstAbsent(data, keys) ==
    {i \in 1..Len(keys) : keys[i] \notin DOMAIN data
                          /\ \A j \in 1..(i - 1) : keys[j] \in DOMAIN data}

MarketKeys == <<"industry_growth_rate", "market_share", "industry_risk_score", "economic_indicator">>

\* Returns <<market_score, market_analysis>>.
assess_market_conditions(market_data) ==
    LET absent == FirstAbsent(market_data, MarketKeys)
        market_analysis ==
            [industry_growth |-> normalize_score(market_data["industry_growth_rate"], -5, 15),
             market_position |-> normalize_score(market_data["market_share"], 0, 30),
             industry_risk |-> normalize_score(market_data["industry_risk_score"], 100, 0),
             economic_conditions |-> normalize_score(market_data["economic_indicator"], -10, 10)]
    IN IF absent # {} THEN Raise("KeyError", MarketKeys[CHOOSE i \in absent : TRUE])
       ELSE Return(<< Mean(<<market_analysis.industry_growth, market_analysis.market_position,
                             market_analysis.industry_risk, market_analysis.economic_conditions>>),
                      market_analysis >>)

QualitativeKeys ==
    <<"management_years", "business_model_score", "competitive_position_score", "compliance_score">>

\* Returns <<qualitative_score, qualitative_analysis>>.
evaluate_qualitative_factors(qualitative_data) ==
    LET absent == FirstAbsent(qualitative_data, QualitativeKeys)
        qualitative_analysis ==
            [management_experience |-> normalize_score(qualitative_data["management_years"], 0, 20),
             business_model |-> qualitative_data["business_model_score"],
             competitive_position |-> qualitative_data["competitive_position_score"],
             regulatory_compliance |-> qualitative_data["compliance_score"]]
    IN IF absent # {} THEN Raise("KeyError", QualitativeKeys[CHOOSE i \in absent : TRUE])
       ELSE Return(<< Mean(<<qualitative_analysis.management_experience,
                             qualitative_analysis.business_model,
                             qualitative_analysis.competitive_position,
                             qualitative_analysis.regulatory_compliance>>),
                      qualitative_analysis >>)

-----------------------------------------------------------------------------
(* np.exp in fixed point: a value v in [0, 2] is the integer floor(v * 10^8) *)

FixOne == 10000 * 10000

\* floor(a * b / 10^8) for 0 <= a, b <= FixOne, by four-digit limbs so that no
\* intermediate product leaves 32 bits.
MulFix(a, b) ==
    LET a1 == a \div 10000
        a0 == a % 10000
        b1 == b \div 10000
        b0 == b % 10000
    IN a1 * b1 + ((a1 * b0 + a0 * b1 + ((a0 * b0) \div 10000)) \div 10000)

\* The first k decimal digits of rem / den (0 <= rem < den), as an integer.
RECURSIVE FracDigits(_, _, _)
FracDigits(rem, den, k) ==
    IF k = 0 THEN 0
    ELSE LET q == (rem * 10) \div den
             r == (rem * 10) % den
             rest == FracDigits(r, den, k - 1)
             RECURSIVE Pow10(_)
             Pow10(e) == IF e = 0 THEN 1 ELSE 10 * Pow10(e - 1)
         IN q * Pow10(k - 1) + rest

\* floor(a * 10^8 / b) for 0 <= a <= b <= 2 * 10^8.
DivFix(a, b) == (a \div b) * FixOne + FracDigits(a % b, b, 8)

\* e^(-f) for 0 <= f <= 1 (f in fixed point): the Taylor series to the 12th
\* term; term k is f^k / k!.
RECURSIVE ExpTerms(_, _, _)
ExpTerms(f, k, term) ==
    IF k > 12 THEN 0
    ELSE LET next == MulFix(term, f) \div k
         IN (IF k % 2 = 0 THEN next ELSE -next) + ExpTerms(f, k + 1, next)

ExpNegFrac(f) == FixOne + ExpTerms(f, 1, FixOne)

RECURSIVE PowFix(_, _)
PowFix(b, e) == IF e = 0 THEN FixOne ELSE MulFix(b, PowFix(b, e - 1))

\* e^(-t) for a rational t >= 0; below 10^-8 from t = 19 on, hence 0 there.
ExpNeg(t) ==
    LET ip == t.n \div t.d
        f == FracDigits(t.n % t.d, t.d, 8)
    IN IF ip > 20 THEN 0
       ELSE MulFix(PowFix(ExpNegFrac(FixOne), ip), ExpNegFrac(f))

-----------------------------------------------------------------------------
(* calculate_probability_of_default, generate_risk_rating *)

\* The logistic with the sign of its exponent flipped: 1 / (1 + exp(0.1 * (100 - total_score)))
calculate_probability_of_default_flipped(total_score) ==
    LET x == RMul(Rat(1, 10), RSub(FromInt(100), total_score))
        e == ExpNeg([n |-> Abs(x.n), d |-> x.d])
    IN IF x.n <= 0 THEN DivFix(FixOne, FixOne + e)
       ELSE DivFix(e, FixOne + e)

\* 1 / (1 + exp(-0.1 * (100 - total_score))), in fixed point.  With
\* x = -0.1 * (100 - total_score): for x <= 0, exp(x) = e^(-|x|) <= 1 and the
\* quotient is 1 / (1 + e^(-|x|)); for x > 0 it equals e^(-x) / (1 + e^(-x)).
calculate_probability_of_default(total_score) ==
    LET x == RMul(Rat(-1, 10), RSub(FromInt(100), total_score))
        e == ExpNeg([n |-> Abs(x.n), d |-> x.d])
    IN IF x.n <= 0 THEN DivFix(FixOne, FixOne + e)
       ELSE DivFix(e, FixOne + e)

\* round(pd * 100, 2) for a fixed-point pd, as the integer number of
\* hundredths of a percent.
RoundPercent(pd) ==
    LET q == pd \div 10000
        r == pd % 10000
    IN IF r < 5000 THEN q
       ELSE IF r > 5000 THEN q + 1
       ELSE IF q % 2 = 0 THEN q ELSE q + 1

\* generate_risk_rating with exclusive bounds (> for >=)
generate_risk_rating_exclusive(thresholds, score) ==
    IF RLt(thresholds["LOW"], score) THEN "LOW RISK"
    ELSE IF RLt(thresholds["MEDIUM"], score) THEN "MEDIUM RISK"
    ELSE IF RLt(thresholds["HIGH"], score) THEN "HIGH RISK"
    ELSE "VERY HIGH RISK"

generate_risk_rating(thresholds, score) ==
    IF RGe(score, thresholds["LOW"]) THEN "LOW RISK"
    ELSE IF RGe(score, thresholds["MEDIUM"]) THEN "MEDIUM RISK"
    ELSE IF RGe(score, thresholds["HIGH"]) THEN "HIGH RISK"
    ELSE "VERY HIGH RISK"

-----------------------------------------------------------------------------
(* _generate_recommendation: reads the rounded assessment['total_score'] *)

generate_recommendation(thresholds, assessment) ==
    LET score == Rat(assessment.total_score, 100)
    IN IF RGe(score, thresholds["LOW"])
       THEN "Recommended for approval with standard terms and conditions."
       ELSE IF RGe(score, thresholds["MEDIUM"])
       THEN "Recommended for approval with enhanced monitoring and possible additional collateral requirements."
       ELSE IF RGe(score, thresholds["HIGH"])
       THEN "Recommended for approval only with substantial collateral and restrictive covenants."
       ELSE "Not recommended for approval under current conditions."

-----------------------------------------------------------------------------
(* assess_credit_risk, lines 158-192: the weighted total and the Assessment *)

WeightedTotal(w, financial_score, behavioral_score, market_score, qualitative_score) ==
    RAdd(RAdd(RAdd(RMul(financial_score, w["financial_score"]),
                   RMul(behavioral_score, w["behavioral_score"])),
              RMul(market_score, w["market_score"])),
         RMul(qualitative_score, w["qualitative_score"]))

\* The dict of lines 171-190 (client_name and assessment_date, which pass
\* through from the caller and the clock, are left out).  Rounded values are
\* integers in hundredths.
CompileAssessment(thresholds, total_score, financial_ratios, financial, behavioral, market, qualitative) ==
    [total_score |-> Round2(total_score),
     risk_rating |-> generate_risk_rating(thresholds, total_score),
     probability_of_default |-> RoundPercent(calculate_probability_of_default(total_score)),
     component_scores |->
         [financial_score |-> Round2(financial[1]),
          behavioral_score |-> Round2(behavioral[1]),
          market_score |-> Round2(market[1]),
          qualitative_score |-> Round2(qualitative[1])],
     detailed_analysis |->
         [financial_analysis |-> financial[2],
          financial_ratios |-> financial_ratios,
          behavioral_analysis |-> behavioral[2],
          market_analysis |-> market[2],
          qualitative_analysis |-> qualitative[2]]]

\* assess_credit_risk as one call on a model whose fields are w, thresholds,
\* benchmarks: the Assessment, or the exception of the first statement to raise.
assess_credit_risk(w, thresholds, benchmarks, args) ==
    LET ratios == calculate_financial_ratios(args.financial_data)
        financial == score_financial_ratios(benchmarks, Value(ratios))
        behavioral == analyze_payment_history(args.payment_data)
        market == assess_market_conditions(args.market_data)
        qualitative == evaluate_qualitative_factors(args.qualitative_data)
        total_score == WeightedTotal(w, financial[1], Value(behavioral)[1], Value(market)[1],
                                     Value(qualitative)[1])
    IN IF ~Returned(ratios) THEN ratios
       ELSE IF ~Returned(behavioral) THEN behavioral
       ELSE IF ~Returned(market) THEN market
       ELSE IF ~Returned(qualitative) THEN qualitative
       ELSE Return(CompileAssessment(thresholds, total_score, Value(ratios), financial,
                                     Value(behavioral), Value(market), Value(qualitative)))

\* generate_report: the lines of the report the claims read (the rating line
\* 205, the score line 204, the default line 206 and the recommendation 264).
generate_report(thresholds, assessment) ==
    [total_score |-> assessment.total_score,
     risk_rating |-> assessment.risk_rating,
     probability_of_default |-> assessment.probability_of_default,
     recommendation |-> generate_recommendation(thresholds, assessment)]

-----------------------------------------------------------------------------
(* The callers of one CreditRiskModel and their call frames *)

Callers == {"A", "B"}

IdleFrame ==
    [pc |-> "idle", financial_ratios |-> None, financial |-> None, behavioral |-> None,
     market |-> None, qualitative |-> None, total_score |-> None, assessment |-> None,
     raised |-> None, report |-> None]

NoUnit == [fn |-> "none", arg |-> None, result |-> None]

Args(c) == inputs[c][1]

Model == <<weights, risk_thresholds, industry_benchmarks>>

\* The statement at pc raised err: the exception leaves assess_credit_risk.
Abort(c, component, err) ==
    frames' = [frames EXCEPT ![c].pc = "raised",
                             ![c].raised = Some([kind |-> err.kind, detail |-> err.detail,
                                                 component |-> component])]

\* A caller builds its four mappings and calls assess_credit_risk(...).
Call(c, args) ==
    /\ frames[c].pc = "idle"
    /\ inputs' = [inputs EXCEPT ![c] = Some(args)]
    /\ given' = [given EXCEPT ![c] = Some(args)]
    /\ frames' = [frames EXCEPT ![c] = [IdleFrame EXCEPT !.pc = "ratios"]]
    /\ UNCHANGED <<Model, unit>>

\* line 149
StepRatios(c) ==
    /\ frames[c].pc = "ratios"
    /\ LET r == calculate_financial_ratios(Args(c).financial_data)
       IN IF Returned(r)
          THEN frames' = [frames EXCEPT ![c].pc = "score",
                                        ![c].financial_ratios = Some(Value(r))]
          ELSE Abort(c, "financial", Error(r))
    /\ UNCHANGED <<Model, inputs, given, unit>>

\* line 150 storing the sub-scores into self.industry_benchmarks
StepScoreOverwritesBenchmarks(c) ==
    /\ frames[c].pc = "score"
    /\ LET scored == score_financial_ratios(industry_benchmarks, frames[c].financial_ratios[1])
       IN /\ frames' = [frames EXCEPT ![c].pc = "behavioral", ![c].financial = Some(scored)]
          /\ industry_benchmarks' = scored[2]
    /\ UNCHANGED <<weights, risk_thresholds, inputs, given, unit>>

\* line 150
StepScore(c) ==
    /\ frames[c].pc = "score"
    /\ frames' = [frames EXCEPT
           ![c].pc = "behavioral",
           ![c].financial = Some(score_financial_ratios(industry_benchmarks,
                                                        frames[c].financial_ratios[1]))]
    /\ UNCHANGED <<Model, inputs, given, unit>>

\* line 152
StepBehavioral(c) ==
    /\ frames[c].pc = "behavioral"
    /\ LET r == analyze_payment_history(Args(c).payment_data)
       IN IF Returned(r)
          THEN frames' = [frames EXCEPT ![c].pc = "market", ![c].behavioral = Some(Value(r))]
          ELSE Abort(c, "behavioral", Error(r))
    /\ UNCHANGED <<Model, inputs, given, unit>>

\* line 154 with the exception caught and a zero score put in its place
StepMarketLenient(c) ==
    /\ frames[c].pc = "market"
    /\ LET r == assess_market_conditions(Args(c).market_data)
       IN frames' = [frames EXCEPT
              ![c].pc = "qualitative",
              ![c].market = IF Returned(r) THEN Some(Value(r))
                            ELSE Some(<<FromInt(0), EmptyDict>>)]
    /\ UNCHANGED <<Model, inputs, given, unit>>

\* line 154
StepMarket(c) ==
    /\ frames[c].pc = "market"
    /\ LET r == assess_market_conditions(Args(c).market_data)
       IN IF Returned(r)
          THEN frames' = [frames EXCEPT ![c].pc = "qualitative", ![c].market = Some(Value(r))]
          ELSE Abort(c, "market", Error(r))
    /\ UNCHANGED <<Model, inputs, given, unit>>

\* line 156
StepQualitative(c) ==
    /\ frames[c].pc = "qualitative"
    /\ LET r == evaluate_qualitative_factors(Args(c).qualitative_data)
       IN IF Returned(r)
          THEN frames' = [frames EXCEPT ![c].pc = "aggregate", ![c].qualitative = Some(Value(r))]
          ELSE Abort(c, "qualitative", Error(r))
    /\ UNCHANGED <<Model, inputs, given, unit>>

\* lines 158-192
StepAggregate(c) ==
    /\ frames[c].pc = "aggregate"
    /\ LET f == frames[c]
           total_score == WeightedTotal(weights, f.financial[1][1], f.behavioral[1][1],
                                        f.market[1][1], f.qualitative[1][1])
       IN frames' = [frames EXCEPT
              ![c].pc = "returned",
              ![c].total_score = Some(total_score),
              ![c].assessment =
                  Some(CompileAssessment(risk_thresholds, total_score, f.financial_ratios[1],
                                         f.financial[1], f.behavioral[1], f.market[1],
                                         f.qualitative[1]))]
    /\ UNCHANGED <<Model, inputs, given, unit>>

\* The caller passes the Assessment it got to generate_report.
GenerateReport(c) ==
    /\ frames[c].pc = "returned"
    /\ frames' = [frames EXCEPT
           ![c].pc = "reported",
           ![c].report = Some(generate_report(risk_thresholds, frames[c].assessment[1]))]
    /\ UNCHANGED <<Model, inputs, given, unit>>

\* The caller drops the outcome and its mappings; it may call again.
Finish(c) ==
    /\ frames[c].pc \in {"returned", "reported", "raised"}
    /\ frames' = [frames EXCEPT ![c] = IdleFrame]
    /\ inputs' = [inputs EXCEPT ![c] = None]
    /\ given' = [given EXCEPT ![c] = None]
    /\ UNCHANGED <<Model, unit>>

-----------------------------------------------------------------------------
(* Inputs *)

MaxAltered == 2        \* fields of the sample statement removed or zeroed at once
MaxHistory == 3        \* payment records in a history passed to analyze_payment_history
MaxPipeHistory == 1    \* payment records in a history passed to assess_credit_risk
BelowZero == 5         \* the score grid starts this many points below 0 ...
AboveHundred == 110    \* ... and ends this many points above 100

\* financial_data of src/run_file.py
SampleFinancial ==
    [current_assets |-> 1000000, current_liabilities |-> 400000, inventory |-> 300000,
     total_debt |-> 800000, total_assets |-> 2000000, ebitda |-> 500000,
     debt_service |-> 200000, net_income |-> 300000, ebit |-> 400000,
     interest_expense |-> 100000]

\* d without the keys of gone, and with the keys of zeroed set to 0
Altered(d, gone, zeroed) ==
    [k \in DOMAIN d \ gone |-> IF k \in zeroed THEN 0 ELSE d[k]]

\* Every statement that differs from the sample in at most MaxAltered fields,
\* each of them absent or zero.
UnitFinancial ==
    {Altered(SampleFinancial, F \ Z, Z) :
        <<F, Z>> \in {<<F, Z>> \in (SUBSET FinancialFields) \X (SUBSET FinancialFields) :
                         Z \subseteq F /\ Cardinality(F) <= MaxAltered}}

\* A statement every benchmarked ratio of which scores 0.
WeakFinancial ==
    [SampleFinancial EXCEPT !["current_assets"] = 0, !["total_debt"] = 2000000,
                            !["ebitda"] = 0, !["net_income"] = -100000]

PipeFinancial ==
    {SampleFinancial, WeakFinancial,
     Altered(SampleFinancial, {"inventory"}, {}),
     Altered(SampleFinancial, {}, {"debt_service"}),
     Altered(SampleFinancial, {"ebit"}, {"debt_service"})}

\* Payment records; the last is a LATE record that carries no days_late.
PaymentRecords ==
    {[status |-> "PAID"], [status |-> "MISSED"], [status |-> "LATE"]}
    \cup {[status |-> "LATE", days_late |-> d] : d \in {0, 10, 250}}

RECURSIVE Histories(_)
Histories(n) ==
    IF n = 0 THEN {<<>>}
    ELSE LET shorter == Histories(n - 1)
         IN shorter \cup {Append(h, r) : h \in shorter, r \in PaymentRecords}

StrongMarket ==
    [industry_growth_rate |-> FromInt(15), market_share |-> FromInt(30),
     industry_risk_score |-> FromInt(0), economic_indicator |-> FromInt(10)]
WeakMarket ==
    [industry_growth_rate |-> FromInt(-5), market_share |-> FromInt(0),
     industry_risk_score |-> FromInt(100), economic_indicator |-> FromInt(-10)]
MidMarket ==
    [industry_growth_rate |-> FromInt(5), market_share |-> FromInt(12),
     industry_risk_score |-> FromInt(45), economic_indicator |-> Rat(5, 2)]
ExtremeMarket ==
    [industry_growth_rate |-> FromInt(40), market_share |-> FromInt(-3),
     industry_risk_score |-> FromInt(-20), economic_indicator |-> FromInt(-30)]

PipeMarket ==
    {StrongMarket, WeakMarket, MidMarket, ExtremeMarket,
     Altered(MidMarket, {"market_share"}, {})}

Qualitative(years, business_model, competitive_position, compliance) ==
    [management_years |-> years, business_model_score |-> business_model,
     competitive_position_score |-> competitive_position, compliance_score |-> compliance]

PipeQualitative ==
    {Qualitative(FromInt(20), FromInt(100), FromInt(100), FromInt(100)),
     Qualitative(FromInt(0), FromInt(0), FromInt(0), FromInt(0)),
     Qualitative(FromInt(0), Rat(1192, 100), FromInt(50), FromInt(50)),
     Qualitative(FromInt(10), FromInt(500), FromInt(100), FromInt(100)),
     Qualitative(FromInt(10), FromInt(-300), FromInt(0), FromInt(0)),
     Altered(Qualitative(FromInt(8), FromInt(70), FromInt(60), FromInt(90)),
             {"compliance_score"}, {})}

PipeArgs ==
    [financial_data : PipeFinancial, payment_data : Histories(MaxPipeHistory),
     market_data : PipeMarket, qualitative_data : PipeQualitative]

\* The inputs of two callers that run at the same time.
ConcArgs ==
    [financial_data : {SampleFinancial, Altered(SampleFinancial, {}, {"total_assets"})},
     payment_data : {<<>>, <<[status |-> "PAID"]>>, <<[status |-> "LATE", days_late |-> 10]>>},
     market_data : {MidMarket},
     qualitative_data : {Qualitative(FromInt(0), Rat(1192, 100), FromInt(50), FromInt(50)),
                         Qualitative(FromInt(10), FromInt(500), FromInt(100), FromInt(100))}]

\* Ratio mappings handed to score_financial_ratios directly.
UnitRatioMaps ==
    [{"current_ratio", "quick_ratio", "debt_ratio", "debt_service_coverage",
      "return_on_assets"} -> {FromInt(-2), Rat(2, 5), FromInt(1), FromInt(50)}]

UnitRatios ==
    {[k \in DOMAIN m \cup {"interest_coverage"} |->
         IF k = "interest_coverage" THEN ic ELSE m[k]] :
        m \in UnitRatioMaps, ic \in {FromInt(-7), FromInt(4)}}

\* Scores k/100 from -BelowZero to 100 + AboveHundred.
ScoreGrid == {Rat(k, 100) : k \in (-100 * BelowZero)..(100 * (100 + AboveHundred))}

\* Pairs of scores a hundredth or a whole point apart.
ScorePairs == {<<s, RAdd(s, d)>> : s \in ScoreGrid, d \in {Rat(1, 100), FromInt(1)}}

-----------------------------------------------------------------------------
(* Direct calls of single methods *)

UnitCall(fn, arg) == [fn |-> fn, arg |-> arg, result |-> None]

UnitDone(fn) == unit.fn = fn /\ unit.result # None

CallRatios ==
    /\ unit.fn = "calculate_financial_ratios"
    /\ unit.result = None
    /\ unit' = [unit EXCEPT !.result = Some(calculate_financial_ratios(unit.arg))]
    /\ UNCHANGED <<Model, inputs, given, frames>>

CallScore ==
    /\ unit.fn = "score_financial_ratios"
    /\ unit.result = None
    /\ unit' = [unit EXCEPT
           !.result = Some(score_financial_ratios(industry_benchmarks, unit.arg))]
    /\ UNCHANGED <<Model, inputs, given, frames>>

CallPayments ==
    /\ unit.fn = "analyze_payment_history"
    /\ unit.result = None
    /\ unit' = [unit EXCEPT !.result = Some(analyze_payment_history(unit.arg))]
    /\ UNCHANGED <<Model, inputs, given, frames>>

CallRating ==
    /\ unit.fn = "generate_risk_rating"
    /\ unit.result = None
    /\ unit' = [unit EXCEPT !.result = Some(generate_risk_rating(risk_thresholds, unit.arg))]
    /\ UNCHANGED <<Model, inputs, given, frames>>

\* The reported probability_of_default (lines 167 and 176) of a total score.
ReportedPD(total_score) == RoundPercent(calculate_probability_of_default(total_score))

\* Two total scores, each through lines 167 and 176.
CallPD ==
    /\ unit.fn = "calculate_probability_of_default"
    /\ unit.result = None
    /\ unit' = [unit EXCEPT
           !.result = Some(<<ReportedPD(unit.arg[1]), ReportedPD(unit.arg[2])>>)]
    /\ UNCHANGED <<Model, inputs, given, frames>>

-----------------------------------------------------------------------------
(* Specifications *)

InitModel ==
    /\ weights = InitWeights
    /\ risk_thresholds = InitRiskThresholds
    /\ industry_benchmarks = InitIndustryBenchmarks
    /\ inputs = [c \in Callers |-> None]
    /\ given = [c \in Callers |-> None]
    /\ frames = [c \in Callers |-> IdleFrame]

Steps(c) ==
    \/ StepRatios(c)
    \/ StepScore(c)
    \/ StepBehavioral(c)
    \/ StepMarket(c)
    \/ StepQualitative(c)
    \/ StepAggregate(c)
    \/ GenerateReport(c)
    \/ Finish(c)

\* One caller, every input of PipeArgs.
Init == InitModel /\ unit = NoUnit

Next ==
    \/ \E args \in PipeArgs : Call("A", args)
    \/ Steps("A")

Spec == Init /\ [][Next]_vars

\* Two callers whose calls interleave statement by statement.
NextConc ==
    \E c \in Callers :
        \/ \E args \in ConcArgs : Call(c, args)
        \/ Steps(c)

SpecConc == Init /\ [][NextConc]_vars

\* One direct call of one method, its argument drawn by the initial state.
InitUnit ==
    /\ InitModel
    /\ \/ \E a \in UnitFinancial : unit = UnitCall("calculate_financial_ratios", a)
       \/ \E a \in UnitRatios : unit = UnitCall("score_financial_ratios", a)
       \/ \E a \in Histories(MaxHistory) : unit = UnitCall("analyze_payment_history", a)
       \/ \E a \in ScoreGrid : unit = UnitCall("generate_risk_rating", a)
       \/ \E a \in ScorePairs : unit = UnitCall("calculate_probability_of_default", a)

NextUnit ==
    \/ CallRatios
    \/ CallScore
    \/ CallPayments
    \/ CallRating
    \/ CallPD

SpecUnit == InitUnit /\ [][NextUnit]_vars

-----------------------------------------------------------------------------
(* Properties of the single methods, under SpecUnit *)

UnitResult == unit.result[1]

\* C1: generate_risk_rating classifies a score by inclusive lower bounds taken
\* in descending order: at least 80 is LOW RISK, else at least 60 is MEDIUM
\* RISK, else at least 40 is HIGH RISK, else VERY HIGH RISK; 80 is LOW RISK,
\* 79.99 and 60 are MEDIUM RISK, 39.99 is VERY HIGH RISK; every score gets
\* exactly one of the four ratings.
C1_RatingByInclusiveBounds ==
    UnitDone("generate_risk_rating") =>
        LET n == unit.arg.n
            d == unit.arg.d
            rating == UnitResult
        IN /\ rating \in {"LOW RISK", "MEDIUM RISK", "HIGH RISK", "VERY HIGH RISK"}
           /\ (rating = "LOW RISK") = (n >= 80 * d)
           /\ (rating = "MEDIUM RISK") = (n < 80 * d /\ n >= 60 * d)
           /\ (rating = "HIGH RISK") = (n < 60 * d /\ n >= 40 * d)
           /\ (rating = "VERY HIGH RISK") = (n < 40 * d)
           /\ (100 * n = 8000 * d => rating = "LOW RISK")
           /\ (100 * n = 7999 * d => rating = "MEDIUM RISK")
           /\ (100 * n = 6000 * d => rating = "MEDIUM RISK")
           /\ (100 * n = 3999 * d => rating = "VERY HIGH RISK")

C1_Witness ==
    /\ UnitDone("generate_risk_rating")
    /\ unit.arg = FromInt(80)
    /\ UnitResult = "LOW RISK"

MissingFields(financial_data) == FinancialFields \ DOMAIN financial_data

ZeroDivisors(financial_data) ==
    {k \in {"current_liabilities", "total_assets", "debt_service", "interest_expense"}
           \cap DOMAIN financial_data : financial_data[k] = 0}

\* C3 as amended: calculate_financial_ratios never returns ratios when a
\* required field is absent or a divisor is zero, and it raises two different
\* error kinds: KeyError naming a missing field when the lookup that fails
\* first is of a missing field, ValueError when a zero divisor is met first.
\* A statement with only missing fields fails with KeyError, one with only
\* zero divisors with ValueError.
C3_RatioEngineFails ==
    UnitDone("calculate_financial_ratios") =>
        LET missing == MissingFields(unit.arg)
            zero == ZeroDivisors(unit.arg)
            r == UnitResult
        IN /\ (missing # {} \/ zero # {}) => ~Returned(r)
           /\ ~Returned(r) =>
                 /\ Error(r).kind \in {"KeyError", "ValueError"}
                 /\ Error(r).kind = "KeyError" => Error(r).detail \in missing
                 /\ Error(r).kind = "ValueError" => zero # {}
                 /\ (zero = {}) => Error(r).kind = "KeyError"
                 /\ (missing = {}) => Error(r).kind = "ValueError"

\* ebit is absent and debt_service is zero: the division by debt_service
\* comes first, and the error does not name ebit.
C3_Witness ==
    /\ UnitDone("calculate_financial_ratios")
    /\ MissingFields(unit.arg) = {"ebit"}
    /\ ZeroDivisors(unit.arg) = {"debt_service"}
    /\ ~Returned(UnitResult)
    /\ Error(UnitResult).kind = "ValueError"

\* C3 as stated: every failure of calculate_financial_ratios, for an absent
\* field or for a zero divisor, has one and the same error kind (the kind a
\* zero divisor alone produces), and the error names the missing field
\* whenever a field is absent.
C3_OneErrorKind ==
    UnitDone("calculate_financial_ratios") =>
        LET missing == MissingFields(unit.arg)
            zero == ZeroDivisors(unit.arg)
            r == UnitResult
            zeroOnly == calculate_financial_ratios(
                            Altered(SampleFinancial, {}, {"debt_service"}))
        IN (missing # {} \/ zero # {}) =>
              /\ ~Returned(r)
              /\ Error(r).kind = Error(zeroOnly).kind
              /\ missing # {} => Error(r).detail \in missing

Benchmarked ==
    {"current_ratio", "quick_ratio", "debt_ratio", "debt_service_coverage", "return_on_assets"}

InRange(x) == 0 <= x.n /\ x.n <= 100 * x.d

\* C6: every sub-score of score_financial_ratios and their mean lie in
\* [0,100] whatever the ratios; exactly the five benchmarked ratios are
\* scored, debt_ratio as (1 - value/benchmark) x 100 and the others as
\* (value/benchmark) x 100, saturated at 0 and 100; interest_coverage gets
\* no sub-score and does not enter the mean.
C6_ScorerWithinRange ==
    UnitDone("score_financial_ratios") =>
        LET ratios == unit.arg
            mean == UnitResult[1]
            scores == UnitResult[2]
            raw(k) == LET q == RDiv(ratios[k], InitIndustryBenchmarks[k])
                      IN IF k = "debt_ratio"
                         THEN RMul(RSub(FromInt(1), q), FromInt(100))
                         ELSE RMul(q, FromInt(100))
            saturated(k) == IF raw(k).n < 0 THEN FromInt(0)
                            ELSE IF raw(k).n > 100 * raw(k).d THEN FromInt(100)
                            ELSE raw(k)
        IN /\ DOMAIN scores = Benchmarked
           /\ \A k \in Benchmarked : InRange(scores[k]) /\ scores[k] = saturated(k)
           /\ InRange(mean)
           /\ RMul(mean, FromInt(5)) =
                  RAdd(scores["current_ratio"],
                       RAdd(scores["quick_ratio"],
                            RAdd(scores["debt_ratio"],
                                 RAdd(scores["debt_service_coverage"],
                                      scores["return_on_assets"]))))

\* A negative debt_ratio (raw score 500) and a current_ratio of 50 (raw score
\* 2500) are both held at 100, a negative quick_ratio at 0.
C6_Witness ==
    /\ UnitDone("score_financial_ratios")
    /\ unit.arg["debt_ratio"] = FromInt(-2)
    /\ unit.arg["current_ratio"] = FromInt(50)
    /\ unit.arg["quick_ratio"] = FromInt(-2)
    /\ UnitResult[2]["debt_ratio"] = FromInt(100)
    /\ UnitResult[2]["current_ratio"] = FromInt(100)
    /\ UnitResult[2]["quick_ratio"] = FromInt(0)

\* C7 as amended: the reported probability_of_default is monotonically
\* decreasing (never increasing) in total_score, is exactly 50% at
\* total_score = 100, and lies in the closed range [0,100]: the rounding to
\* two decimals makes it exactly 100.0 at total_score 0 and below.  It is
\* strictly inside (0,100) for every total_score from 1 to 199, and within
\* [50,100] for every total_score in [0,100].
C7_PDClosedRange ==
    UnitDone("calculate_probability_of_default") =>
        LET lo == unit.arg[1]
            hi == unit.arg[2]
            pdLo == UnitResult[1]
            pdHi == UnitResult[2]
        IN /\ RLt(lo, hi) /\ pdLo >= pdHi
           /\ \A i \in {1, 2} :
                 LET s == unit.arg[i]
                     pd == UnitResult[i]
                 IN /\ 0 <= pd /\ pd <= 10000
                    /\ s = FromInt(100) => pd = 5000
                    /\ s.n <= 0 => pd = 10000
                    /\ (s.n >= s.d /\ s.n <= 199 * s.d) => (0 < pd /\ pd < 10000)
                    /\ (s.n >= 0 /\ s.n <= 100 * s.d) => pd >= 5000

C7_Witness ==
    /\ UnitDone("calculate_probability_of_default")
    /\ unit.arg[1] = FromInt(0)
    /\ UnitResult[1] = 10000
    /\ UnitResult[2] < 10000

\* C7 as stated: the reported probability_of_default is monotonically
\* decreasing in total_score, exactly 50% at total_score = 100, and strictly
\* within (0,100) for every total_score.
C7_PDStrictlyInside ==
    UnitDone("calculate_probability_of_default") =>
        /\ UnitResult[1] >= UnitResult[2]
        /\ \A i \in {1, 2} :
              /\ unit.arg[i] = FromInt(100) => UnitResult[i] = 5000
              /\ 0 < UnitResult[i] /\ UnitResult[i] < 10000

WellFormed(history) ==
    \A i \in 1..Len(history) :
        /\ "status" \in DOMAIN history[i]
        /\ history[i]["status"] = "LATE" => "days_late" \in DOMAIN history[i]

RECURSIVE SumDaysLate(_, _)
SumDaysLate(history, idx) ==
    IF idx = {} THEN 0
    ELSE LET i == CHOOSE j \in idx : TRUE
         IN history[i]["days_late"] + SumDaysLate(history, idx \ {i})

\* C10: for every non-empty history of payment records (a LATE record carries
\* its days_late), behavioral_score = clamp(0,100, on_time_ratio x 100 -
\* average_days_late x 0.5) with on_time_ratio = (total - late - missed) /
\* total and average_days_late the mean of days_late over the LATE records
\* alone (0 without a LATE record); an all-PAID history scores exactly 100 and
\* an all-MISSED history exactly 0.
C10_BehavioralScore ==
    (UnitDone("analyze_payment_history") /\ unit.arg # <<>> /\ WellFormed(unit.arg)) =>
        LET history == unit.arg
            total == Len(history)
            late == {i \in 1..total : history[i]["status"] = "LATE"}
            missed == {i \in 1..total : history[i]["status"] = "MISSED"}
            paid == {i \in 1..total : history[i]["status"] = "PAID"}
            average == IF late = {} THEN FromInt(0)
                       ELSE Rat(SumDaysLate(history, late), Cardinality(late))
            on_time == Rat(total - Cardinality(late) - Cardinality(missed), total)
            raw == RSub(RMul(on_time, FromInt(100)), RMul(average, Rat(1, 2)))
            expected == IF raw.n < 0 THEN FromInt(0)
                        ELSE IF raw.n > 100 * raw.d THEN FromInt(100)
                        ELSE raw
        IN /\ Returned(UnitResult)
           /\ Value(UnitResult)[1] = expected
           /\ Value(UnitResult)[2].late_payments = Cardinality(late)
           /\ Value(UnitResult)[2].missed_payments = Cardinality(missed)
           /\ Value(UnitResult)[2].average_days_late = average
           /\ Cardinality(paid) = total => Value(UnitResult)[1] = FromInt(100)
           /\ Cardinality(missed) = total => Value(UnitResult)[1] = FromInt(0)

\* One LATE record of 10 days, one MISSED, one PAID: the average is 10 (not
\* 5), on_time_ratio 1/3, the score 100/3 - 5 = 85/3.
C10_Witness ==
    /\ UnitDone("analyze_payment_history")
    /\ unit.arg = <<[status |-> "LATE", days_late |-> 10], [status |-> "MISSED"],
                    [status |-> "PAID"]>>
    /\ Returned(UnitResult)
    /\ Value(UnitResult)[1] = Rat(85, 3)

-----------------------------------------------------------------------------
(* Properties of assess_credit_risk and generate_report, under Spec *)

Components == <<"financial", "behavioral", "market", "qualitative">>

KeysAbsent(data, keys) == {keys[i] : i \in 1..Len(keys)} \ DOMAIN data

\* What makes each component raise, read off its input alone.
ComponentFails(args) ==
    [financial |-> MissingFields(args.financial_data) # {}
                   \/ ZeroDivisors(args.financial_data) # {},
     behavioral |-> args.payment_data = <<>> \/ ~WellFormed(args.payment_data),
     market |-> KeysAbsent(args.market_data, MarketKeys) # {},
     qualitative |-> KeysAbsent(args.qualitative_data, QualitativeKeys) # {}]

\* The position in Components of the first component that fails, 5 if none does.
FirstFailing(args) ==
    LET failing == {i \in 1..4 : ComponentFails(args)[Components[i]]}
    IN IF failing = {} THEN 5 ELSE CHOOSE i \in failing : \A j \in failing : i <= j

\* C2: assess_credit_risk is all-or-nothing.  It returns an Assessment only
\* when none of the four components (financial, behavioral, market,
\* qualitative, in that order) fails, and the Assessment then holds all four
\* category scores; otherwise the first component that fails in that order
\* ends the call with its error, no Assessment or total score exists, not
\* even a partial one, and no later component has run.
C2_AllOrNothing ==
    \A c \in Callers :
        LET f == frames[c]
        IN f.pc # "idle" =>
             LET first == FirstFailing(Args(c))
                 ran == {i \in 1..4 : f[Components[i]] # None}
             IN /\ (f.assessment # None) = (f.pc \in {"returned", "reported"})
                /\ f.pc \in {"returned", "reported"} =>
                      /\ first = 5
                      /\ ran = 1..4
                      /\ f.raised = None
                      /\ \A i \in 1..4 :
                            f.assessment[1].component_scores[Components[i] \o "_score"]
                                = Round2(f[Components[i]][1][1])
                /\ f.pc = "raised" =>
                      /\ first # 5
                      /\ f.raised[1].component = Components[first]
                      /\ ran = 1..(first - 1)
                      /\ f.total_score = None
                      /\ f.assessment = None
                      /\ f.report = None
                      /\ Components[first] \in {"market", "qualitative"} =>
                            /\ f.raised[1].kind = "KeyError"
                            /\ f.raised[1].detail \notin
                                   DOMAIN Args(c).market_data \cup DOMAIN Args(c).qualitative_data
                /\ ran \subseteq 1..(first - 1)

\* The market component fails (market_share is absent) after the financial
\* and behavioral ones succeeded; the qualitative input is bad as well.
C2_Witness ==
    /\ frames["A"].pc = "raised"
    /\ frames["A"].raised[1].component = "market"
    /\ frames["A"].financial # None
    /\ frames["A"].behavioral # None
    /\ frames["A"].qualitative = None
    /\ ComponentFails(Args("A")).qualitative

\* C4: an empty payment history always fails: analyze_payment_history raises
\* ValueError ("Payment history data is required") for it before it tallies
\* anything, and assess_credit_risk called with an empty payment history
\* never returns an Assessment, whatever the other inputs are.
C4_EmptyHistoryFails ==
    \A c \in Callers :
        LET f == frames[c]
        IN (f.pc # "idle" /\ Args(c).payment_data = <<>>) =>
              /\ f.pc \notin {"market", "qualitative", "aggregate", "returned", "reported"}
              /\ f.behavioral = None
              /\ f.assessment = None
              /\ f.report = None
              /\ (f.pc = "raised" /\ ~ComponentFails(Args(c)).financial) =>
                    /\ f.raised[1].component = "behavioral"
                    /\ f.raised[1].kind = "ValueError"
                    /\ f.raised[1].detail = "Payment history data is required"

\* Sound financial, market and qualitative inputs with an empty history.
C4_Witness ==
    /\ frames["A"].pc = "raised"
    /\ Args("A").payment_data = <<>>
    /\ frames["A"].financial # None
    /\ frames["A"].raised[1].kind = "ValueError"
    /\ ~ComponentFails(Args("A")).market
    /\ ~ComponentFails(Args("A")).qualitative

\* C5: every category score a component produces is a value in [0,100], for
\* every input the component accepts, and so is the weighted total_score.
C5_CategoryScoresWithinRange ==
    \A c \in Callers :
        LET f == frames[c]
        IN /\ \A i \in 1..4 : f[Components[i]] # None => InRange(f[Components[i]][1][1])
           /\ f.total_score # None => InRange(f.total_score[1])

RecommendationOf(rating) ==
    CASE rating = "LOW RISK" ->
             "Recommended for approval with standard terms and conditions."
      [] rating = "MEDIUM RISK" ->
             "Recommended for approval with enhanced monitoring and possible additional collateral requirements."
      [] rating = "HIGH RISK" ->
             "Recommended for approval only with substantial collateral and restrictive covenants."
      [] rating = "VERY HIGH RISK" ->
             "Not recommended for approval under current conditions."

\* C8: for every Assessment assess_credit_risk returns, the recommendation
\* generate_report selects is the one that belongs to the Assessment's own
\* risk_rating; the two never disagree.
C8_RecommendationMatchesRating ==
    \A c \in Callers :
        frames[c].pc = "reported" =>
            frames[c].report[1].recommendation
                = RecommendationOf(frames[c].assessment[1].risk_rating)

-----------------------------------------------------------------------------
(* Properties of concurrent callers, under SpecConc *)

\* C9: assessment calls are independent and re-entrant.  Under any
\* interleaving of the statements of assess_credit_risk and generate_report
\* calls of two callers on one CreditRiskModel, no step changes the model's
\* weights, risk_thresholds or industry_benchmarks or a caller's input
\* mappings, and the outcome of each call (scores, risk_rating,
\* probability_of_default, or the error) and its report are those of the same
\* call run alone on its own arguments.
C9_CallsIndependent ==
    /\ weights = InitWeights
    /\ risk_thresholds = InitRiskThresholds
    /\ industry_benchmarks = InitIndustryBenchmarks
    /\ \A c \in Callers :
          LET f == frames[c]
          IN /\ inputs[c] = given[c]
             /\ f.pc \in {"returned", "reported", "raised"} =>
                   LET alone == assess_credit_risk(InitWeights, InitRiskThresholds,
                                                   InitIndustryBenchmarks, given[c][1])
                   IN /\ Returned(alone) = (f.pc # "raised")
                      /\ f.pc # "raised" => f.assessment[1] = Value(alone)
                      /\ f.pc = "raised" =>
                            /\ f.raised[1].kind = Error(alone).kind
                            /\ f.raised[1].detail = Error(alone).detail
                      /\ f.pc = "reported" =>
                            f.report[1] = generate_report(InitRiskThresholds, Value(alone))

\* B is in the middle of a call on other inputs when A's call returns.
C9_Witness ==
    /\ frames["A"].pc = "returned"
    /\ frames["B"].pc \in {"behavioral", "market", "qualitative", "aggregate"}
    /\ inputs["A"] # inputs["B"]
    /\ frames["A"].assessment[1].risk_rating = "HIGH RISK"

=============================================================================
